---- MODULE Spec2Model ----
(***************************************************************************)
(* Model of the HTTP server's lifecycle (src/src/server.rs) and of its     *)
(* worker pool (src/src/thread_pool.rs).                                   *)
(*                                                                         *)
(* Caller threads invoke Server::stop and Server::listen_forever on one    *)
(* shared Server.  Every listen_forever call that leaves Stopped is a      *)
(* "run"; run r owns the ThreadPool created by that call.  Connections are *)
(* numbered: clients first, then the wake-up connections opened by stop(). *)
(*                                                                         *)
(* Spec is the lifecycle and the pool.  ConnSpec is what one task does with *)
(* its connection: ConnectionHandler::handle (src/src/server.rs) with       *)
(* parse_request (src/src/types.rs) and Router (src/src/handlers.rs).       *)
(* RespSpec is the life of one Response value (src/src/types.rs) under      *)
(* set_header and the compression hook (src/src/compression.rs).            *)
(* PoolSpec is one ThreadPool with the lock around its Receiver spelled out *)
(* (src/src/thread_pool.rs).                                                *)
(***************************************************************************)
EXTENDS Naturals, Sequences, FiniteSets, TLC

\* ---------------------------------------------------------------- bounds
NumThreads == 2
NumWorkers == 1
MaxClients == 3
MaxRuns == 1
\* ConnSpec: route entries, hooks in the middleware list, header lines
MaxRoutes == 2
MaxHooks == 2
MaxHeaders == 1
\* RespSpec: set_header calls and after-hook applications on one response
MaxOps == 2
\* PoolSpec: workers of the pool, tasks handed to execute
PoolSize == 2
MaxTasks == 2

Threads == 1..NumThreads
Workers == 1..NumWorkers
Runs == 1..MaxRuns
Clients == 1..MaxClients
Dummies == (MaxClients + 1)..(MaxClients + MaxRuns)
Conns == Clients \cup Dummies

\* what listener.incoming() yields when accept() fails
AcceptErr == 0
\* no connection in hand
NoConn == MaxClients + MaxRuns + 1
\* the state mutex is free
Unlocked == 0

VARIABLES
    state,      \* Server.state: "Stopped", "Running" or "Stopping"
    guard,      \* holder of the Mutex around Server.state, or Unlocked
    pc,         \* position of every caller thread
    cur,        \* the item of listener.incoming() a thread's loop holds
    run,        \* the run (pool) a thread's listen_forever call belongs to
    ret,        \* the value a listen_forever call is about to return
    joinIdx,    \* Drop for ThreadPool: index of the next worker to join
    runs,       \* number of runs started so far
    backlog,    \* the listener's queue of connections waiting for accept()
    nClients,   \* number of client connections opened so far
    nDummy,     \* number of wake-up connections opened by stop()
    conn,       \* where every connection (TcpStream) is
    queue,      \* per run: the mpsc channel's buffered tasks
    sender,     \* per run: ThreadPool.sender is Some
    worker,     \* per run: the state and task of every worker thread
    aborted,    \* the process aborted (a panic while unwinding)
    \* ConnectionHandler::handle on one connection
    routes,     \* Router.routes: the entries in registration order
    middleware, \* ConnectionHandler.middleware: the number of hooks in the list
    hpc,        \* position of handle
    lines,      \* what reader.lines() has yielded so far
    request,    \* the Request parse_request builds
    applied,    \* the results of the hooks applied so far
    calls,      \* the route entries whose handler was invoked, in order
    response,   \* what request_handler.handle returned
    writer,     \* what was written to the BufWriter, in order
    result,     \* what handle returned
    steps,      \* the pipeline steps taken, in order
    \* one Response value
    rpc,        \* "new" before a constructor ran, then "built"
    resp,       \* the Response: status, headers, body
    nOps,       \* number of calls made on the response
    \* one ThreadPool, with the Mutex around the Receiver
    chan,       \* the tasks the channel buffers
    txOpen,     \* ThreadPool.sender is Some
    receiver,   \* the worker that holds the lock of Mutex<Receiver>, or NoHolder
    wk,         \* the position and the task of every worker thread
    submitted,  \* number of tasks handed to execute
    dropAt      \* Drop for ThreadPool: the next worker to join, 0 before drop

lifeVars == <<state, guard, pc, cur, run, ret, joinIdx, runs, backlog,
              nClients, nDummy, conn, queue, sender, worker, aborted>>
connVars == <<routes, middleware, hpc, lines, request, applied, calls,
              response, writer, result, steps>>
respVars == <<rpc, resp, nOps>>
pipeVars == <<connVars, respVars>>
wpVars == <<chan, txOpen, receiver, wk, submitted, dropAt>>

vars == <<lifeVars, pipeVars, wpVars>>

srvVars == <<state, guard>>
thrVars == <<pc, cur, run, ret, joinIdx>>
netVars == <<backlog, nClients, nDummy>>
poolVars == <<queue, sender, worker>>

\* ----------------------------------------------------- values at rest
\* no Request has been parsed
NoRequest == [st |-> "none", method |-> "none", path |-> "none", headers |-> <<>>, matches |-> <<>>]
\* request_handler.handle has not returned
NoResponse == [kind |-> "none", status |-> "none", body |-> FALSE]
\* a Response that no constructor has built yet
NoResp == [status |-> "none", headers |-> <<>>, body |-> <<>>, some |-> FALSE]

\* no connection is being handled
ConnIdle ==
    /\ routes = <<>>
    /\ middleware = 0
    /\ hpc = "idle"
    /\ lines = <<>>
    /\ request = NoRequest
    /\ applied = <<>>
    /\ calls = <<>>
    /\ response = NoResponse
    /\ writer = <<>>
    /\ result = "none"
    /\ steps = <<>>

\* no Response is being built
RespIdle ==
    /\ rpc = "idle"
    /\ resp = NoResp
    /\ nOps = 0

\* PoolSpec's workers, and the lock of Mutex<Receiver> when it is free
PoolWorkers == 1..PoolSize
NoHolder == 0
NoTask == 0

\* no ThreadPool of PoolSpec exists
WpIdle ==
    /\ chan = <<>>
    /\ txOpen = FALSE
    /\ receiver = NoHolder
    /\ wk = [w \in PoolWorkers |-> [st |-> "unborn", task |-> NoTask]]
    /\ submitted = 0
    /\ dropAt = 0

\* ------------------------------------------------------------------ Init
\* The state after Server::start: the listener is bound, the state is
\* Stopped, no pool exists yet.
LifeInit ==
    /\ state = "Stopped"
    /\ guard = Unlocked
    /\ pc = [t \in Threads |-> "idle"]
    /\ cur = [t \in Threads |-> NoConn]
    /\ run = [t \in Threads |-> 0]
    /\ ret = [t \in Threads |-> "ok"]
    /\ joinIdx = [t \in Threads |-> 0]
    /\ runs = 0
    /\ backlog = <<>>
    /\ nClients = 0
    /\ nDummy = 0
    /\ conn = [c \in Conns |-> "new"]
    /\ queue = [r \in Runs |-> <<>>]
    /\ sender = [r \in Runs |-> FALSE]
    /\ worker = [r \in Runs |-> [w \in Workers |-> [st |-> "unborn", task |-> NoConn]]]
    /\ aborted = FALSE

Init ==
    /\ LifeInit
    /\ ConnIdle
    /\ RespIdle
    /\ WpIdle

\* ---------------------------------------------------------------- helpers
Live(r, w) == worker[r][w].st \in {"idle", "run"}

\* The Receiver is owned by the worker threads alone (the Arc made in
\* ThreadPool::new is cloned into every worker closure and the original is
\* dropped when new returns): it lives as long as one worker thread does.
ReceiverAlive(r) == \E w \in Workers : Live(r, w)

\* dropping a channel drops the tasks it buffers, and the streams they own
RECURSIVE CloseAll(_, _)
CloseAll(f, q) ==
    IF q = <<>> THEN f ELSE CloseAll([f EXCEPT ![Head(q)] = "closed"], Tail(q))

\* Caller threads are interchangeable (the code never looks at a thread's
\* identity), so a new call is made by the first thread that is free.
FirstIdle(t) ==
    /\ pc[t] = "idle"
    /\ \A u \in Threads : u < t => pc[u] # "idle"

\* -------------------------------------------------------- Server::stop
\* let mut guard = self.state.lock().unwrap();
StopLock(t) ==
    /\ ~aborted
    /\ FirstIdle(t)
    /\ guard = Unlocked
    /\ guard' = t
    /\ pc' = [pc EXCEPT ![t] = "stop_locked"]
    /\ UNCHANGED <<state, cur, run, ret, joinIdx, runs, netVars, conn, poolVars, aborted, pipeVars, wpVars>>

\* the wrong stop(): the early return is missing
StopCheckNoReturn(t) ==
    /\ ~aborted
    /\ pc[t] = "stop_locked"
    /\ nDummy < MaxRuns
    /\ state' = "Stopping"
    /\ pc' = [pc EXCEPT ![t] = "stop_connect"]
    /\ UNCHANGED <<guard, cur, run, ret, joinIdx, runs, netVars, conn, poolVars, aborted, pipeVars, wpVars>>

\* if *guard != ServerState::Running { return; }  *guard = ServerState::Stopping;
StopCheck(t) ==
    /\ ~aborted
    /\ pc[t] = "stop_locked"
    /\ IF state # "Running"
       THEN /\ guard' = Unlocked
            /\ pc' = [pc EXCEPT ![t] = "idle"]
            /\ UNCHANGED state
       ELSE /\ state' = "Stopping"
            /\ pc' = [pc EXCEPT ![t] = "stop_connect"]
            /\ UNCHANGED guard
    /\ UNCHANGED <<cur, run, ret, joinIdx, runs, netVars, conn, poolVars, aborted, pipeVars, wpVars>>

\* the wrong connect: it completes only when the accept loop is in accept()
\* to take the connection
StopConnectNeedsAccept(t) ==
    /\ ~aborted
    /\ pc[t] = "stop_connect"
    /\ \E u \in Threads : pc[u] = "lf_accept"
    /\ nDummy' = nDummy + 1
    /\ backlog' = Append(backlog, MaxClients + nDummy + 1)
    /\ conn' = [conn EXCEPT ![MaxClients + nDummy + 1] = "backlog"]
    /\ guard' = Unlocked
    /\ pc' = [pc EXCEPT ![t] = "idle"]
    /\ UNCHANGED <<state, cur, run, ret, joinIdx, runs, nClients, poolVars, aborted, pipeVars, wpVars>>

\* let _ = TcpStream::connect(&self.addr);  then the guard is dropped.
\* The connection is established by the listener's backlog, without accept().
StopConnect(t) ==
    /\ ~aborted
    /\ pc[t] = "stop_connect"
    /\ nDummy' = nDummy + 1
    /\ backlog' = Append(backlog, MaxClients + nDummy + 1)
    /\ conn' = [conn EXCEPT ![MaxClients + nDummy + 1] = "backlog"]
    /\ guard' = Unlocked
    /\ pc' = [pc EXCEPT ![t] = "idle"]
    /\ UNCHANGED <<state, cur, run, ret, joinIdx, runs, nClients, poolVars, aborted, pipeVars, wpVars>>

\* ---------------------------------------------- Server::listen_forever
\* let mut guard = self.state.lock().unwrap();
ListenLock(t) ==
    /\ ~aborted
    /\ FirstIdle(t)
    /\ guard = Unlocked
    /\ state = "Stopped" => runs < MaxRuns
    /\ guard' = t
    /\ pc' = [pc EXCEPT ![t] = "lf_locked"]
    /\ UNCHANGED <<state, cur, run, ret, joinIdx, runs, netVars, conn, poolVars, aborted, pipeVars, wpVars>>

\* the wrong listen_forever(): the "already running" return is missing
ListenCheckNoReturn(t) ==
    /\ ~aborted
    /\ pc[t] = "lf_locked"
    /\ state' = "Running"
    /\ runs' = IF runs < MaxRuns THEN runs + 1 ELSE runs
    /\ run' = [run EXCEPT ![t] = runs']
    /\ pc' = [pc EXCEPT ![t] = "lf_pool"]
    /\ guard' = Unlocked
    /\ UNCHANGED <<cur, ret, joinIdx, netVars, conn, poolVars, aborted, pipeVars, wpVars>>

\* if *guard != ServerState::Stopped { return Ok(()); }  *guard = Running;
ListenCheck(t) ==
    /\ ~aborted
    /\ pc[t] = "lf_locked"
    /\ IF state # "Stopped"
       THEN /\ pc' = [pc EXCEPT ![t] = "idle"]
            /\ UNCHANGED <<state, runs, run>>
       ELSE /\ state' = "Running"
            /\ runs' = runs + 1
            /\ run' = [run EXCEPT ![t] = runs + 1]
            /\ pc' = [pc EXCEPT ![t] = "lf_pool"]
    /\ guard' = Unlocked
    /\ UNCHANGED <<cur, ret, joinIdx, netVars, conn, poolVars, aborted, pipeVars, wpVars>>

\* let mut pool = ThreadPool::new(self.config.workers);
NewPool(t) ==
    /\ ~aborted
    /\ pc[t] = "lf_pool"
    /\ sender' = [sender EXCEPT ![run[t]] = TRUE]
    /\ worker' = [worker EXCEPT ![run[t]] = [w \in Workers |-> [st |-> "idle", task |-> NoConn]]]
    /\ pc' = [pc EXCEPT ![t] = "lf_accept"]
    /\ UNCHANGED <<srvVars, cur, run, ret, joinIdx, runs, netVars, conn, queue, aborted, pipeVars, wpVars>>

\* for stream in self.listener.incoming(): accept() hands over the oldest
\* waiting connection, or fails.
Accept(t) ==
    /\ ~aborted
    /\ pc[t] = "lf_accept"
    /\ \/ /\ backlog # <<>>
          /\ cur' = [cur EXCEPT ![t] = Head(backlog)]
          /\ backlog' = Tail(backlog)
          /\ conn' = [conn EXCEPT ![Head(backlog)] = "held"]
       \/ /\ cur' = [cur EXCEPT ![t] = AcceptErr]
          /\ UNCHANGED <<backlog, conn>>
    /\ pc' = [pc EXCEPT ![t] = "lf_check"]
    /\ UNCHANGED <<srvVars, run, ret, joinIdx, runs, nClients, nDummy, poolVars, aborted, pipeVars, wpVars>>

\* the wrong loop: a failed accept ends the loop the way a stop does
CheckStateBreakOnErr(t) ==
    /\ ~aborted
    /\ pc[t] = "lf_check"
    /\ guard = Unlocked
    /\ IF state = "Stopping" \/ cur[t] = AcceptErr
       THEN /\ pc' = [pc EXCEPT ![t] = "lf_mark"]
            /\ cur' = [cur EXCEPT ![t] = NoConn]
            /\ conn' = IF cur[t] \in Conns THEN [conn EXCEPT ![cur[t]] = "closed"] ELSE conn
       ELSE /\ pc' = [pc EXCEPT ![t] = "lf_dispatch"]
            /\ UNCHANGED <<cur, conn>>
    /\ UNCHANGED <<srvVars, run, ret, joinIdx, runs, netVars, poolVars, aborted, pipeVars, wpVars>>

\* if *self.state.lock().unwrap() == ServerState::Stopping { break; }
\* let stream = stream?;
CheckState(t) ==
    /\ ~aborted
    /\ pc[t] = "lf_check"
    /\ guard = Unlocked
    /\ IF state = "Stopping"
       THEN \* break: the stream, if any, is dropped unhandled
            /\ pc' = [pc EXCEPT ![t] = "lf_mark"]
            /\ cur' = [cur EXCEPT ![t] = NoConn]
            /\ conn' = IF cur[t] \in Conns THEN [conn EXCEPT ![cur[t]] = "closed"] ELSE conn
            /\ UNCHANGED ret
       ELSE IF cur[t] = AcceptErr
       THEN \* stream? returns the error from listen_forever
            /\ pc' = [pc EXCEPT ![t] = "lf_drop"]
            /\ cur' = [cur EXCEPT ![t] = NoConn]
            /\ ret' = [ret EXCEPT ![t] = "err"]
            /\ UNCHANGED conn
       ELSE /\ pc' = [pc EXCEPT ![t] = "lf_dispatch"]
            /\ UNCHANGED <<cur, conn, ret>>
    /\ UNCHANGED <<srvVars, run, joinIdx, runs, netVars, poolVars, aborted, pipeVars, wpVars>>

\* the wrong handoff: a rendezvous channel, where send waits until an idle
\* worker takes the task
DispatchRendezvous(t) ==
    /\ ~aborted
    /\ pc[t] = "lf_dispatch"
    /\ \/ /\ conn' = [conn EXCEPT ![cur[t]] = "closed"]
          /\ ret' = [ret EXCEPT ![t] = "err"]
          /\ pc' = [pc EXCEPT ![t] = "lf_drop"]
          /\ UNCHANGED <<queue, aborted>>
       \/ /\ ReceiverAlive(run[t])
          /\ queue[run[t]] = <<>>
          /\ \E w \in Workers : worker[run[t]][w].st = "idle"
          /\ queue' = [queue EXCEPT ![run[t]] = Append(@, cur[t])]
          /\ conn' = [conn EXCEPT ![cur[t]] = "queued"]
          /\ pc' = [pc EXCEPT ![t] = "lf_accept"]
          /\ UNCHANGED <<ret, aborted>>
       \/ /\ ~ReceiverAlive(run[t])
          /\ conn' = [conn EXCEPT ![cur[t]] = "closed"]
          /\ aborted' = TRUE
          /\ pc' = [pc EXCEPT ![t] = "panicked"]
          /\ UNCHANGED <<ret, queue>>
    /\ cur' = [cur EXCEPT ![t] = NoConn]
    /\ UNCHANGED <<srvVars, run, joinIdx, runs, netVars, sender, worker, pipeVars, wpVars>>

\* stream.set_write_timeout(..)?; stream.set_read_timeout(..)?;
\* pool.execute(Box::new(move || { handler.handle(stream) .. }));
\* execute is sender.send(task).unwrap(): it panics when the Receiver is gone,
\* and the unwinding then runs Drop for ThreadPool, whose join().unwrap()
\* meets a panicked worker: a panic while panicking aborts the process.
Dispatch(t) ==
    /\ ~aborted
    /\ pc[t] = "lf_dispatch"
    /\ \/ \* a set_*_timeout call fails: `?` returns the error, the stream is dropped
          /\ conn' = [conn EXCEPT ![cur[t]] = "closed"]
          /\ ret' = [ret EXCEPT ![t] = "err"]
          /\ pc' = [pc EXCEPT ![t] = "lf_drop"]
          /\ UNCHANGED <<queue, aborted>>
       \/ /\ ReceiverAlive(run[t])
          /\ queue' = [queue EXCEPT ![run[t]] = Append(@, cur[t])]
          /\ conn' = [conn EXCEPT ![cur[t]] = "queued"]
          /\ pc' = [pc EXCEPT ![t] = "lf_accept"]
          /\ UNCHANGED <<ret, aborted>>
       \/ /\ ~ReceiverAlive(run[t])
          /\ conn' = [conn EXCEPT ![cur[t]] = "closed"]
          /\ aborted' = TRUE
          /\ pc' = [pc EXCEPT ![t] = "panicked"]
          /\ UNCHANGED <<ret, queue>>
    /\ cur' = [cur EXCEPT ![t] = NoConn]
    /\ UNCHANGED <<srvVars, run, joinIdx, runs, netVars, sender, worker, pipeVars, wpVars>>

\* after the loop: *guard = ServerState::Stopped;
MarkStopped(t) ==
    /\ ~aborted
    /\ pc[t] = "lf_mark"
    /\ guard = Unlocked
    /\ state' = "Stopped"
    /\ ret' = [ret EXCEPT ![t] = "ok"]
    /\ pc' = [pc EXCEPT ![t] = "lf_drop"]
    /\ UNCHANGED <<guard, cur, run, joinIdx, runs, netVars, conn, poolVars, aborted, pipeVars, wpVars>>

\* ------------------------------------------------- Drop for ThreadPool
\* `pool` goes out of scope when listen_forever returns, by Ok(()) or by `?`.
\* drop(self.sender.take());
DropSender(t) ==
    /\ ~aborted
    /\ pc[t] = "lf_drop"
    /\ sender' = [sender EXCEPT ![run[t]] = FALSE]
    /\ joinIdx' = [joinIdx EXCEPT ![t] = 1]
    /\ pc' = [pc EXCEPT ![t] = "lf_join"]
    /\ UNCHANGED <<srvVars, cur, run, ret, runs, netVars, conn, queue, worker, aborted, pipeVars, wpVars>>

\* for worker in &mut self.workers { handle.join().unwrap(); }
\* join() blocks until the worker thread has ended; it is Err when the thread
\* panicked, and unwrap() then panics out of drop and of listen_forever.
Join(t) ==
    /\ ~aborted
    /\ pc[t] = "lf_join"
    /\ joinIdx[t] \in Workers
    /\ \/ /\ worker[run[t]][joinIdx[t]].st = "exit"
          /\ joinIdx' = [joinIdx EXCEPT ![t] = @ + 1]
          /\ UNCHANGED <<pc, ret>>
       \/ /\ worker[run[t]][joinIdx[t]].st = "dead"
          /\ pc' = [pc EXCEPT ![t] = "panicked"]
          /\ ret' = [ret EXCEPT ![t] = "panic"]
          /\ joinIdx' = [joinIdx EXCEPT ![t] = 0]
    /\ UNCHANGED <<srvVars, cur, run, runs, netVars, conn, poolVars, aborted, pipeVars, wpVars>>

\* every worker is joined: drop returns and listen_forever returns its value
Return(t) ==
    /\ ~aborted
    /\ pc[t] = "lf_join"
    /\ joinIdx[t] = NumWorkers + 1
    /\ ret' = [ret EXCEPT ![t] = "ok"]
    /\ joinIdx' = [joinIdx EXCEPT ![t] = 0]
    /\ run' = [run EXCEPT ![t] = 0]
    /\ pc' = [pc EXCEPT ![t] = "idle"]
    /\ UNCHANGED <<srvVars, cur, runs, netVars, conn, poolVars, aborted, pipeVars, wpVars>>

\* --------------------------------------------------------- Worker::new
\* the wrong worker: it takes the next task while its current one still runs
WRecvWhileRunning(r, w) ==
    /\ ~aborted
    /\ worker[r][w].st \in {"idle", "run"}
    /\ IF queue[r] # <<>>
       THEN /\ worker' = [worker EXCEPT ![r][w] = [st |-> "run", task |-> Head(queue[r])]]
            /\ queue' = [queue EXCEPT ![r] = Tail(@)]
            /\ conn' = [conn EXCEPT ![Head(queue[r])] = "running"]
       ELSE /\ ~sender[r]
            /\ worker[r][w].st = "idle"
            /\ worker' = [worker EXCEPT ![r][w].st = "exit"]
            /\ UNCHANGED <<queue, conn>>
    /\ UNCHANGED <<srvVars, thrVars, runs, netVars, sender, aborted, pipeVars, wpVars>>

\* let task = receiver.lock().unwrap().recv();
\* recv() yields the oldest buffered task, or Err once the Sender is dropped
\* and the buffer is empty.  The lock guard is a temporary of this statement:
\* the lock is taken and released within it, so taking a task is one step.
WRecv(r, w) ==
    /\ ~aborted
    /\ worker[r][w].st = "idle"
    /\ IF queue[r] # <<>>
       THEN /\ worker' = [worker EXCEPT ![r][w] = [st |-> "run", task |-> Head(queue[r])]]
            /\ queue' = [queue EXCEPT ![r] = Tail(@)]
            /\ conn' = [conn EXCEPT ![Head(queue[r])] = "running"]
       ELSE /\ ~sender[r]
            /\ worker' = [worker EXCEPT ![r][w].st = "exit"]
            /\ UNCHANGED <<queue, conn>>
    /\ UNCHANGED <<srvVars, thrVars, runs, netVars, sender, aborted, pipeVars, wpVars>>

\* task(): handler.handle(stream) returns Ok, or returns an error that the
\* task logs; either way the task returns, the stream is dropped and the
\* worker loops.
WFinish(r, w) ==
    /\ ~aborted
    /\ worker[r][w].st = "run"
    /\ conn' = [conn EXCEPT ![worker[r][w].task] = "closed"]
    /\ worker' = [worker EXCEPT ![r][w] = [st |-> "idle", task |-> NoConn]]
    /\ UNCHANGED <<srvVars, thrVars, runs, netVars, queue, sender, aborted, pipeVars, wpVars>>

\* task() panics: the panic unwinds the worker thread, which ends.  When it
\* was the last worker thread, the Receiver and the tasks it buffers go too.
WPanic(r, w) ==
    /\ ~aborted
    /\ worker[r][w].st = "run"
    /\ worker' = [worker EXCEPT ![r][w] = [st |-> "dead", task |-> NoConn]]
    /\ IF \A v \in Workers \ {w} : ~Live(r, v)
       THEN /\ conn' = CloseAll([conn EXCEPT ![worker[r][w].task] = "closed"], queue[r])
            /\ queue' = [queue EXCEPT ![r] = <<>>]
       ELSE /\ conn' = [conn EXCEPT ![worker[r][w].task] = "closed"]
            /\ UNCHANGED queue
    /\ UNCHANGED <<srvVars, thrVars, runs, netVars, sender, aborted, pipeVars, wpVars>>

\* ---------------------------------------------------------- environment
\* a client opens a connection to the listening address
Connect ==
    /\ ~aborted
    /\ nClients < MaxClients
    /\ nClients' = nClients + 1
    /\ backlog' = Append(backlog, nClients + 1)
    /\ conn' = [conn EXCEPT ![nClients + 1] = "backlog"]
    /\ UNCHANGED <<srvVars, thrVars, runs, nDummy, poolVars, aborted, pipeVars, wpVars>>

\* ------------------------------------------------------- specification
ThreadStep(t) ==
    \/ StopCheck(t)
    \/ StopConnect(t)
    \/ ListenCheck(t)
    \/ NewPool(t)
    \/ Accept(t)
    \/ CheckState(t)
    \/ Dispatch(t)
    \/ MarkStopped(t)
    \/ DropSender(t)
    \/ Join(t)
    \/ Return(t)

WorkerStep(r, w) ==
    \/ WRecv(r, w)
    \/ WFinish(r, w)
    \/ WPanic(r, w)

Next ==
    \/ \E t \in Threads : StopLock(t)
    \/ \E t \in Threads : ListenLock(t)
    \/ \E t \in Threads : ThreadStep(t)
    \/ \E r \in Runs : \E w \in Workers : WorkerStep(r, w)
    \/ Connect

Spec == Init /\ [][Next]_vars

\* Threads and workers are scheduled by the operating system and no thread
\* is starved of the state lock: a step that is possible again and again is
\* eventually taken.  Callers and clients are free to call or not.
FairSpec ==
    /\ Spec
    /\ \A t \in Threads : SF_vars(ThreadStep(t))
    /\ \A r \in Runs : \A w \in Workers : WF_vars(WorkerStep(r, w))

\* =================================================== one connection
\* ------------------------------------------------------- types.rs: wire
\* A line of the request is its words, which single spaces separate.
\* Words that begin with '/' and hold no space (the regex's "/[^ ]*"):
PathWords == {"/a", "/b"}
\* Words that end with ':' after at least one other character ("[^ ]+:"),
\* and the key each of them holds:
KeyOf == [w \in {"k:"} |-> "k"]

\* what reader.lines() can yield: a line, an io::Error, or the end (None)
Line(ws) == [io |-> "ok", line |-> ws]
ReadError == [io |-> "err", line |-> <<>>]
EndOfInput == [io |-> "eof", line |-> <<>>]
Items ==
    { Line(<<"GET", "/a", "HTTP/1.1">>),
      Line(<<"POST", "/a", "HTTP/1.1">>),
      Line(<<"PUT", "/a", "HTTP/1.1">>),
      Line(<<"GET", "/a">>),
      Line(<<"k:", "v">>),
      Line(<<"k", "v">>),
      Line(<<>>),
      ReadError,
      EndOfInput }

\* impl FromStr for Method
MethodFromStr(w) ==
    IF w = "POST" THEN "Post" ELSE IF w = "GET" THEN "Get" ELSE "error"

\* parse_request_line: the regex ^(GET|POST) (/[^ ]*) HTTP/1.1$ matches
RequestLineMatches(ws) ==
    /\ Len(ws) = 3
    /\ ws[1] \in {"GET", "POST"}
    /\ ws[2] \in PathWords
    /\ ws[3] = "HTTP/1.1"

\* parse_header: the regex ^([^ ]+): (.+)$ matches
HeaderMatches(ws) ==
    /\ Len(ws) >= 2
    /\ ws[1] \in DOMAIN KeyOf

\* impl Display for HttpStatus
StatusText ==
    [st \in {"OK", "Created", "NotFound", "BadRequest", "ServerError"} |->
        CASE st = "OK" -> "200 OK"
          [] st = "Created" -> "201 Created"
          [] st = "NotFound" -> "404 Not Found"
          [] st = "BadRequest" -> "400 Bad Request"
          [] st = "ServerError" -> "500 Internal Server Error"]

\* --------------------------------------------------- handlers.rs: Router
\* A pattern is taken for the set of paths the regex engine matches it on.
Patterns == {{"/a"}, {"/b"}}
Entries == [method : {"Get", "Post"}, pat : Patterns]
Tables == UNION {[1..n -> Entries] : n \in 0..MaxRoutes}

\* match_pat(pat, &req.path).is_some()
MatchPat(pat, path) == path \in pat

\* self.routes.iter().filter(method ==).filter_map(match_pat).next():
\* the entries are visited in order; the index stands for the handler.
RECURSIVE FirstHit(_, _, _, _)
FirstHit(tbl, i, method, path) ==
    IF i > Len(tbl) THEN 0
    ELSE IF tbl[i].method = method /\ MatchPat(tbl[i].pat, path) THEN i
    ELSE FirstHit(tbl, i + 1, method, path)

\* ------------------------------------ server.rs: ConnectionHandler::handle
\* what a Handler may return: Ok(Response { status, body }) or
\* Err(HttpError(status))
Outcomes ==
    [kind : {"ok"}, status : {"OK", "Created"}, body : BOOLEAN]
    \cup [kind : {"err"}, status : {"NotFound", "BadRequest", "ServerError"}, body : {FALSE}]

\* a task starts on a connection: the Router and the middleware list were
\* built at startup
ConnInit ==
    /\ LifeInit
    /\ RespIdle
    /\ WpIdle
    /\ routes \in Tables
    /\ middleware \in 0..MaxHooks
    /\ hpc = "start"
    /\ lines = <<>>
    /\ request = NoRequest
    /\ applied = <<>>
    /\ calls = <<>>
    /\ response = NoResponse
    /\ writer = <<>>
    /\ result = "none"
    /\ steps = <<>>

\* handle returns Err(ConnectionError) through `?`
ReturnsErr ==
    /\ hpc' = "closed"
    /\ result' = "err"

\* let addr = stream.peer_addr().unwrap().to_string();
\* peer_addr() fails when the peer is gone already, and unwrap() then panics.
PeerAddr ==
    /\ hpc = "start"
    /\ \/ hpc' = "parse_line"
       \/ hpc' = "panicked"
    /\ UNCHANGED <<routes, middleware, lines, request, applied, calls, response,
                   writer, result, steps>>
    /\ UNCHANGED <<lifeVars, respVars, wpVars>>

\* parse_request: parse_request_line(lines.next().ok_or(RequestParsingError)??)?
ParseRequestLine ==
    /\ hpc = "parse_line"
    /\ \E it \in Items :
          /\ lines' = Append(lines, it)
          /\ IF it.io = "ok" /\ RequestLineMatches(it.line)
                /\ MethodFromStr(it.line[1]) # "error"
             THEN /\ request' = [request EXCEPT !.st = "lines",
                                                !.method = MethodFromStr(it.line[1]),
                                                !.path = it.line[2]]
                  /\ hpc' = "parse_headers"
                  /\ UNCHANGED result
             ELSE /\ ReturnsErr
                  /\ UNCHANGED request
    /\ steps' = Append(steps, "parse")
    /\ UNCHANGED <<routes, middleware, applied, calls, response, writer>>
    /\ UNCHANGED <<lifeVars, respVars, wpVars>>

\* parse_request: lines.take_while(|line| line.as_ref().map(|s| !s.is_empty())
\*     .unwrap_or(false)).map(.. parse_header).collect::<Result<Vec<_>, _>>()?
\* collect pulls one item at a time.  take_while ends the headers at the end
\* of the input, at an empty line, and (unwrap_or(false)) at a failed read;
\* a line that take_while lets through is parsed, and a malformed one makes
\* collect, and parse_request, return the error.
ParseHeader ==
    /\ hpc = "parse_headers"
    /\ \E it \in Items :
          /\ lines' = Append(lines, it)
          /\ IF it.io = "eof" \/ it.io = "err" \/ it.line = <<>>
             THEN /\ request' = [request EXCEPT !.st = "parsed"]
                  /\ hpc' = "hooks"
                  /\ UNCHANGED result
             ELSE IF HeaderMatches(it.line)
             THEN /\ Len(request.headers) < MaxHeaders
                  /\ request' = [request EXCEPT !.headers =
                                    Append(@, <<KeyOf[it.line[1]], Tail(it.line)>>)]
                  /\ UNCHANGED <<hpc, result>>
             ELSE /\ ReturnsErr
                  /\ UNCHANGED request
    /\ steps' = Append(steps, "parse")
    /\ UNCHANGED <<routes, middleware, applied, calls, response, writer>>
    /\ UNCHANGED <<lifeVars, respVars, wpVars>>

\* the wrong loop: a failed hook is ignored (`let _ = f.apply(..)`)
ApplyIgnoringErr ==
    /\ hpc = "hooks"
    /\ Len(applied) < middleware
    /\ \E ok \in BOOLEAN : applied' = Append(applied, ok)
    /\ steps' = Append(steps, "before")
    /\ UNCHANGED <<routes, middleware, hpc, lines, request, calls, response,
                   writer, result>>
    /\ UNCHANGED <<lifeVars, respVars, wpVars>>

\* for f in &self.middleware { f.apply(&mut request)?; }
\* one hook is applied; what it returns depends on the hook.
Apply ==
    /\ hpc = "hooks"
    /\ Len(applied) < middleware
    /\ \E ok \in BOOLEAN :
          /\ applied' = Append(applied, ok)
          /\ IF ok THEN UNCHANGED <<hpc, result>> ELSE ReturnsErr
    /\ steps' = Append(steps, "before")
    /\ UNCHANGED <<routes, middleware, lines, request, calls, response, writer>>
    /\ UNCHANGED <<lifeVars, respVars, wpVars>>

\* the wrong dispatch: the method filter is missing
RouteIgnoringMethod ==
    /\ hpc = "hooks"
    /\ Len(applied) = middleware
    /\ LET hit == CHOOSE i \in 0..Len(routes) :
                     /\ i > 0 => MatchPat(routes[i].pat, request.path)
                     /\ \A j \in 1..Len(routes) :
                           MatchPat(routes[j].pat, request.path) => (i > 0 /\ i <= j)
       IN  IF hit = 0
           THEN /\ response' = [kind |-> "err", status |-> "NotFound", body |-> FALSE]
                /\ hpc' = "write_status"
                /\ UNCHANGED request
           ELSE /\ request' = [request EXCEPT !.matches = <<request.path, hit>>]
                /\ hpc' = "call"
                /\ UNCHANGED response
    /\ steps' = Append(steps, "route")
    /\ UNCHANGED <<routes, middleware, lines, applied, calls, writer, result>>
    /\ UNCHANGED <<lifeVars, respVars, wpVars>>

\* the wrong dispatch: the last matching entry wins
RouteLastHit ==
    /\ hpc = "hooks"
    /\ Len(applied) = middleware
    /\ LET hit == CHOOSE i \in 0..Len(routes) :
                     /\ i > 0 => (routes[i].method = request.method
                                  /\ MatchPat(routes[i].pat, request.path))
                     /\ \A j \in 1..Len(routes) :
                           (routes[j].method = request.method
                            /\ MatchPat(routes[j].pat, request.path)) => (i > 0 /\ i >= j)
       IN  IF hit = 0
           THEN /\ response' = [kind |-> "err", status |-> "NotFound", body |-> FALSE]
                /\ hpc' = "write_status"
                /\ UNCHANGED request
           ELSE /\ request' = [request EXCEPT !.matches = <<request.path, hit>>]
                /\ hpc' = "call"
                /\ UNCHANGED response
    /\ steps' = Append(steps, "route")
    /\ UNCHANGED <<routes, middleware, lines, applied, calls, writer, result>>
    /\ UNCHANGED <<lifeVars, respVars, wpVars>>

\* self.request_handler.handle(&self.context, request), the Router: the loop
\* over the hooks is over; the first entry with the request's method whose
\* pattern matches is taken, or .ok_or(HttpError(HttpStatus::NotFound))?
\* returns NotFound; req.with_matches(matches) attaches the captures (the
\* matched text and the entry they come from).
Route ==
    /\ hpc = "hooks"
    /\ Len(applied) = middleware
    /\ LET hit == FirstHit(routes, 1, request.method, request.path)
       IN  IF hit = 0
           THEN /\ response' = [kind |-> "err", status |-> "NotFound", body |-> FALSE]
                /\ hpc' = "write_status"
                /\ UNCHANGED request
           ELSE /\ request' = [request EXCEPT !.matches = <<request.path, hit>>]
                /\ hpc' = "call"
                /\ UNCHANGED response
    /\ steps' = Append(steps, "route")
    /\ UNCHANGED <<routes, middleware, lines, applied, calls, writer, result>>
    /\ UNCHANGED <<lifeVars, respVars, wpVars>>

\* the wrong order: the status line is written before the handler is called
CallAfterStatus ==
    /\ hpc = "call"
    /\ calls' = Append(calls, request.matches[2])
    /\ \E o \in Outcomes : response' = o
    /\ writer' = Append(writer, [kind |-> "status", text |-> StatusText["OK"]])
    /\ hpc' = "write_blank"
    /\ steps' = steps \o <<"write", "handle">>
    /\ UNCHANGED <<routes, middleware, lines, request, applied, result>>
    /\ UNCHANGED <<lifeVars, respVars, wpVars>>

\* h.handle(ctx, req.with_matches(matches)): the handler of the entry taken
\* is invoked and returns a Response or an HttpError.
Call ==
    /\ hpc = "call"
    /\ calls' = Append(calls, request.matches[2])
    /\ \E o \in Outcomes : response' = o
    /\ hpc' = "write_status"
    /\ steps' = Append(steps, "handle")
    /\ UNCHANGED <<routes, middleware, lines, request, applied, writer, result>>
    /\ UNCHANGED <<lifeVars, respVars, wpVars>>

\* the wrong writer: every HttpError is answered with 500
WriteStatusMasked ==
    /\ hpc = "write_status"
    /\ writer' = Append(writer,
          [kind |-> "status",
           text |-> IF response.kind = "err" THEN StatusText["ServerError"]
                    ELSE StatusText[response.status]])
    /\ hpc' = IF response.kind = "ok" /\ response.body THEN "write_head" ELSE "write_blank"
    /\ steps' = Append(steps, "write")
    /\ UNCHANGED <<routes, middleware, lines, request, applied, calls, response, result>>
    /\ UNCHANGED <<lifeVars, respVars, wpVars>>

\* write!(writer, "HTTP/1.1 {}\r\n", status)?  in either arm of the match.
\* The writer is a BufWriter: a line goes to its buffer and cannot fail.
WriteStatus ==
    /\ hpc = "write_status"
    /\ writer' = Append(writer, [kind |-> "status", text |-> StatusText[response.status]])
    /\ hpc' = IF response.kind = "ok" /\ response.body THEN "write_head" ELSE "write_blank"
    /\ steps' = Append(steps, "write")
    /\ UNCHANGED <<routes, middleware, lines, request, applied, calls, response, result>>
    /\ UNCHANGED <<lifeVars, respVars, wpVars>>

\* if let Some(Body { content_length, content_type, .. }) = &body {
\*     write!(writer, "Content-Type: ..")?; write!(writer, "Content-Length: ..")?; }
WriteHead ==
    /\ hpc = "write_head"
    /\ writer' = writer \o <<[kind |-> "header", text |-> "Content-Type"],
                             [kind |-> "header", text |-> "Content-Length"]>>
    /\ hpc' = "write_blank"
    /\ steps' = Append(steps, "write")
    /\ UNCHANGED <<routes, middleware, lines, request, applied, calls, response, result>>
    /\ UNCHANGED <<lifeVars, respVars, wpVars>>

\* write!(writer, "\r\n")?;  after it the Err arm and a Response without a
\* body are done: handle returns Ok(()).
WriteBlank ==
    /\ hpc = "write_blank"
    /\ writer' = Append(writer, [kind |-> "blank", text |-> ""])
    /\ IF response.kind = "ok" /\ response.body
       THEN /\ hpc' = "write_body"
            /\ UNCHANGED result
       ELSE /\ hpc' = "closed"
            /\ result' = "ok"
    /\ steps' = Append(steps, "write")
    /\ UNCHANGED <<routes, middleware, lines, request, applied, calls, response>>
    /\ UNCHANGED <<lifeVars, respVars, wpVars>>

\* io::copy(data, &mut writer)?;  reading the body or writing to the socket
\* may fail, and `?` then returns the error after a part of the response.
WriteBody ==
    /\ hpc = "write_body"
    /\ \/ /\ writer' = Append(writer, [kind |-> "body", text |-> "data"])
          /\ result' = "ok"
       \/ /\ result' = "err"
          /\ UNCHANGED writer
    /\ hpc' = "closed"
    /\ steps' = Append(steps, "write")
    /\ UNCHANGED <<routes, middleware, lines, request, applied, calls, response>>
    /\ UNCHANGED <<lifeVars, respVars, wpVars>>

ConnNext ==
    \/ PeerAddr
    \/ ParseRequestLine
    \/ ParseHeader
    \/ Apply
    \/ Route
    \/ Call
    \/ WriteStatus
    \/ WriteHead
    \/ WriteBlank
    \/ WriteBody

ConnSpec == ConnInit /\ [][ConnNext]_vars

\* ===================================================== one Response
\* header keys in use, and str::to_lowercase on them
Keys == {"content-length", "Content-Length", "content-type", "content-encoding", "x-a"}
to_lowercase == [k \in Keys |-> IF k = "Content-Length" THEN "content-length" ELSE k]
\* header values a handler sets
Values == {"v", "7"}
\* body bytes: a text or the content of a file
Datas == {<<>>, <<97>>, <<97, 98>>}
\* the sizes a caller of Response::binary declares
Sizes == 0..2

\* the gzip codec as a transform of the byte stream: a header, the deflated
\* bytes and a trailer, so that the result is never as long as its input
GzEncoder(data) == <<31, 139>> \o data \o <<Len(data)>>

\* self.headers.iter_mut().find(|(k, _)| k.to_lowercase() == new_k.to_lowercase()):
\* the index of the first entry with that key, 0 when there is none
RECURSIVE find(_, _, _)
find(headers, i, new_k) ==
    IF i > Len(headers) THEN 0
    ELSE IF to_lowercase[headers[i][1]] = to_lowercase[new_k] THEN i
    ELSE find(headers, i + 1, new_k)

\* the wrong set_header: the keys are compared as they are, case and all
set_header_exact(r, new_k, new_v) ==
    LET hit == {i \in DOMAIN r.headers : r.headers[i][1] = new_k}
    IN  IF hit # {}
        THEN [r EXCEPT !.headers[CHOOSE i \in hit : \A j \in hit : i <= j] =
                            <<new_k, new_v>>]
        ELSE [r EXCEPT !.headers = Append(@, <<new_k, new_v>>)]

\* Response::set_header
set_header(r, new_k, new_v) ==
    LET i == find(r.headers, 1, new_k)
    IN  IF i # 0
        THEN [r EXCEPT !.headers[i] = <<r.headers[i][1], new_v>>]
        ELSE [r EXCEPT !.headers = Append(@, <<new_k, new_v>>)]

\* Response::empty
empty == [status |-> "OK", headers |-> <<>>, body |-> <<>>, some |-> FALSE]

\* Response::created
created == [status |-> "Created", headers |-> <<>>, body |-> <<>>, some |-> FALSE]

\* Response::binary
binary(data, size) ==
    [status |-> "OK",
     headers |-> <<<<"content-length", ToString(size)>>,
                   <<"content-type", "application/octet-stream">>>>,
     body |-> data, some |-> TRUE]

\* Response::plain_text
plain_text(text) ==
    [status |-> "OK",
     headers |-> <<<<"content-length", ToString(Len(text))>>,
                   <<"content-type", "text/plain">>>>,
     body |-> text, some |-> TRUE]

\* the wrong hook: the content-length declared before compression is kept
apply_after_stale(r) ==
    LET r1 == set_header(r, "content-encoding", "gzip")
    IN  IF r1.some
        THEN [r1 EXCEPT !.body = GzEncoder(r1.body)]
        ELSE r1

\* Compression::apply_after, when read_to_end succeeds: the content-encoding
\* header is set first, whether there is a body or not
apply_after(r) ==
    LET r1 == set_header(r, "content-encoding", "gzip")
    IN  IF r1.some
        THEN LET buf == GzEncoder(r1.body)
                 r2 == set_header(r1, "content-length", ToString(Len(buf)))
             IN  [r2 EXCEPT !.body = buf]
        ELSE r1

\* a handler is about to build its Response
RespInit ==
    /\ LifeInit
    /\ ConnIdle
    /\ WpIdle
    /\ rpc = "new"
    /\ resp = NoResp
    /\ nOps = 0

ConstructEmpty ==
    /\ rpc = "new"
    /\ resp' = empty
    /\ rpc' = "built"
    /\ UNCHANGED <<nOps, lifeVars, connVars, wpVars>>

ConstructCreated ==
    /\ rpc = "new"
    /\ resp' = created
    /\ rpc' = "built"
    /\ UNCHANGED <<nOps, lifeVars, connVars, wpVars>>

ConstructBinary ==
    /\ rpc = "new"
    /\ \E data \in Datas : \E size \in Sizes : resp' = binary(data, size)
    /\ rpc' = "built"
    /\ UNCHANGED <<nOps, lifeVars, connVars, wpVars>>

ConstructPlainText ==
    /\ rpc = "new"
    /\ \E text \in Datas : resp' = plain_text(text)
    /\ rpc' = "built"
    /\ UNCHANGED <<nOps, lifeVars, connVars, wpVars>>

\* the compression hook runs on the response.  e.read_to_end(&mut buf)? may
\* fail on a body that cannot be read: the hook then returns the error, with
\* the body taken out of the response, and the response is not serialized.
CallApplyAfter ==
    /\ rpc = "built"
    /\ nOps < MaxOps
    /\ nOps' = nOps + 1
    /\ \/ /\ resp' = apply_after(resp)
          /\ UNCHANGED rpc
       \/ /\ resp.some
          /\ resp' = [set_header(resp, "content-encoding", "gzip")
                         EXCEPT !.body = <<>>, !.some = FALSE]
          /\ rpc' = "failed"
    /\ UNCHANGED <<lifeVars, connVars, wpVars>>

\* a handler or a hook calls resp.set_header(new_k, new_v)
CallSetHeader ==
    /\ rpc = "built"
    /\ nOps < MaxOps
    /\ nOps' = nOps + 1
    /\ \E new_k \in Keys : \E new_v \in Values : resp' = set_header(resp, new_k, new_v)
    /\ UNCHANGED <<rpc, lifeVars, connVars, wpVars>>

RespNext ==
    \/ ConstructEmpty
    \/ ConstructCreated
    \/ ConstructBinary
    \/ ConstructPlainText
    \/ CallApplyAfter
    \/ CallSetHeader

RespSpec == RespInit /\ [][RespNext]_vars

\* =================================================== one ThreadPool
\* the state after ThreadPool::new(PoolSize): the channel is open and every
\* worker thread is at the top of its loop
PoolInit ==
    /\ LifeInit
    /\ ConnIdle
    /\ RespIdle
    /\ chan = <<>>
    /\ txOpen = TRUE
    /\ receiver = NoHolder
    /\ wk = [w \in PoolWorkers |-> [st |-> "lock", task |-> NoTask]]
    /\ submitted = 0
    /\ dropAt = 0

\* the worker thread is running (the Receiver lives as long as one does)
PoolLive(w) == wk[w].st \in {"lock", "recv", "run"}

\* ThreadPool::execute: self.sender.as_ref().unwrap().send(task).unwrap().
\* send never waits; it fails when the Receiver is gone, and the unwrap then
\* panics in the pool's owner, whose unwinding drops the pool.
Execute ==
    /\ txOpen
    /\ submitted < MaxTasks
    /\ submitted' = submitted + 1
    /\ IF \E w \in PoolWorkers : PoolLive(w)
       THEN /\ chan' = Append(chan, submitted + 1)
            /\ UNCHANGED <<txOpen, dropAt>>
       ELSE /\ txOpen' = FALSE
            /\ dropAt' = 1
            /\ UNCHANGED chan
    /\ UNCHANGED <<receiver, wk, lifeVars, pipeVars>>

\* receiver.lock(): the worker waits for the Mutex around the Receiver
RecvLock(w) ==
    /\ wk[w].st = "lock"
    /\ receiver = NoHolder
    /\ receiver' = w
    /\ wk' = [wk EXCEPT ![w].st = "recv"]
    /\ UNCHANGED <<chan, txOpen, submitted, dropAt, lifeVars, pipeVars>>

\* the wrong loop: the lock guard lives as long as the task runs
\* (`while let Ok(task) = receiver.lock().unwrap().recv() { task(); }`)
RecvHoldingLock(w) ==
    /\ wk[w].st = "recv"
    /\ IF chan # <<>>
       THEN /\ wk' = [wk EXCEPT ![w] = [st |-> "run", task |-> Head(chan)]]
            /\ chan' = Tail(chan)
            /\ UNCHANGED receiver
       ELSE /\ ~txOpen
            /\ wk' = [wk EXCEPT ![w].st = "exit"]
            /\ receiver' = NoHolder
            /\ UNCHANGED chan
    /\ UNCHANGED <<txOpen, submitted, dropAt, lifeVars, pipeVars>>

\* let task = receiver.lock().unwrap().recv();
\* recv() waits, with the lock held, until a task is buffered or the Sender
\* is dropped; the guard is a temporary of the `let` statement, so the lock
\* is released when the statement ends, before `match task` runs the task
\* or breaks.
Recv(w) ==
    /\ wk[w].st = "recv"
    /\ IF chan # <<>>
       THEN /\ wk' = [wk EXCEPT ![w] = [st |-> "run", task |-> Head(chan)]]
            /\ chan' = Tail(chan)
       ELSE /\ ~txOpen
            /\ wk' = [wk EXCEPT ![w].st = "exit"]
            /\ UNCHANGED chan
    /\ receiver' = NoHolder
    /\ UNCHANGED <<txOpen, submitted, dropAt, lifeVars, pipeVars>>

\* task() returns: the worker goes back to the top of its loop
TaskDone(w) ==
    /\ wk[w].st = "run"
    /\ wk' = [wk EXCEPT ![w] = [st |-> "lock", task |-> NoTask]]
    /\ UNCHANGED <<chan, txOpen, receiver, submitted, dropAt, lifeVars, pipeVars>>

\* task() panics: the worker thread ends; the last one takes the Receiver
\* and the tasks it buffers with it
TaskPanics(w) ==
    /\ wk[w].st = "run"
    /\ wk' = [wk EXCEPT ![w] = [st |-> "dead", task |-> NoTask]]
    /\ chan' = IF \A v \in PoolWorkers \ {w} : ~PoolLive(v) THEN <<>> ELSE chan
    /\ UNCHANGED <<txOpen, receiver, submitted, dropAt, lifeVars, pipeVars>>

\* Drop for ThreadPool: drop(self.sender.take());
PoolDrop ==
    /\ txOpen
    /\ txOpen' = FALSE
    /\ dropAt' = 1
    /\ UNCHANGED <<chan, receiver, wk, submitted, lifeVars, pipeVars>>

\* Drop for ThreadPool: handle.join().unwrap() on the next worker; a worker
\* that panicked makes the unwrap panic, which ends the drop
PoolJoin ==
    /\ dropAt \in PoolWorkers
    /\ \/ /\ wk[dropAt].st = "exit"
          /\ dropAt' = dropAt + 1
       \/ /\ wk[dropAt].st = "dead"
          /\ dropAt' = PoolSize + 2
    /\ UNCHANGED <<chan, txOpen, receiver, wk, submitted, lifeVars, pipeVars>>

PoolNext ==
    \/ Execute
    \/ \E w \in PoolWorkers : RecvLock(w)
    \/ \E w \in PoolWorkers : Recv(w)
    \/ \E w \in PoolWorkers : TaskDone(w)
    \/ \E w \in PoolWorkers : TaskPanics(w)
    \/ PoolDrop
    \/ PoolJoin

PoolSpec == PoolInit /\ [][PoolNext]_vars

\* ================================================================ claims
LoopPcs == {"lf_pool", "lf_accept", "lf_check", "lf_dispatch", "lf_mark"}
CallPcs == LoopPcs \cup {"lf_drop", "lf_join"}

\* thread t is inside the accept loop of listen_forever (from the moment it
\* set Running to the moment it sets Stopped or returns an error)
InLoop(t) == pc[t] \in LoopPcs

\* this step ends thread t's listen_forever call (by return or by panic)
Leaves(t) == pc[t] \in CallPcs /\ pc'[t] \notin CallPcs

\* C1: the server state changes only Stopped -> Running (by listen_forever),
\* Running -> Stopping (by stop) and Stopping -> Stopped (by the accept loop,
\* which is past its loop only when it observed Stopping).
C1_OnlyThreeTransitions ==
    [][ /\ state' # state =>
            \/ /\ state = "Stopped" /\ state' = "Running"
               /\ \E t \in Threads : pc[t] = "lf_locked" /\ pc'[t] = "lf_pool"
            \/ /\ state = "Running" /\ state' = "Stopping"
               /\ \E t \in Threads : pc[t] = "stop_locked" /\ pc'[t] = "stop_connect"
            \/ /\ state = "Stopping" /\ state' = "Stopped"
               /\ \E t \in Threads : pc[t] = "lf_mark" /\ pc'[t] = "lf_drop"
        /\ \A t \in Threads : pc'[t] = "lf_mark" => state' = "Stopping"
      ]_vars

\* a run was started, stopped and marked Stopped, and a second stop() call
\* is in progress at the same time
C1_Witness ==
    /\ runs >= 1
    /\ state = "Stopped"
    /\ nDummy >= 1
    /\ \E t \in Threads : pc[t] = "lf_join"

\* C4: stop() called while the state is Stopped or Stopping returns at once:
\* the state, the listener's backlog and the connections are as before (no
\* wake-up connection is opened).
C4_StopIsNoopUnlessRunning ==
    [][ \A t \in Threads :
            (pc[t] = "stop_locked" /\ state # "Running" /\ pc'[t] # pc[t]) =>
                /\ pc'[t] = "idle"
                /\ guard' = Unlocked
                /\ UNCHANGED <<state, backlog, nDummy, nClients, conn, cur, runs, poolVars>>
      ]_vars

\* a second stop() holds the lock after a first one made Stopping and opened
\* its wake-up connection
C4_Witness ==
    /\ state = "Stopping"
    /\ nDummy = 1
    /\ \E t \in Threads : pc[t] = "stop_locked"

\* C5: listen_forever called while the state is Running or Stopping returns
\* at once, changing neither the state nor any pool nor the backlog; and at
\* most one thread is inside the accept loop.
C5_ListenIsNoopUnlessStopped ==
    [][ /\ \A t \in Threads :
              (pc[t] = "lf_locked" /\ state # "Stopped" /\ pc'[t] # pc[t]) =>
                  /\ pc'[t] = "idle"
                  /\ UNCHANGED <<state, backlog, nDummy, nClients, conn, cur, run, runs, poolVars>>
        /\ Cardinality({t \in Threads : pc'[t] \in LoopPcs}) <= 1
      ]_vars

\* a thread calls listen_forever while another thread is blocked in accept()
C5_Witness ==
    \E t, u \in Threads :
        /\ t # u
        /\ pc[t] = "lf_locked"
        /\ pc[u] = "lf_accept"
        /\ state = "Running"

\* C2: once stop() has made Running -> Stopping, the accept loop is woken,
\* the state becomes Stopped and listen_forever returns, although no client
\* connects any more.
C2_StopLeadsToStopped ==
    (state = "Stopping") ~> (state = "Stopped" /\ \A t \in Threads : pc[t] \notin CallPcs)

\* C3: every task handed to execute is executed exactly once: a buffered task
\* leaves the channel only by being started, a started task is never started
\* again, and no two workers hold the same task.
C3_EveryTaskExactlyOnce ==
    [][ \A c \in Conns :
          /\ conn[c] = "queued" => conn'[c] \in {"queued", "running"}
          /\ conn[c] = "running" => conn'[c] \in {"running", "closed"}
          /\ conn'[c] = "running" =>
                /\ \A r \in Runs : \A i \in 1..Len(queue'[r]) : queue'[r][i] # c
                /\ Cardinality({rw \in Runs \X Workers :
                                  worker'[rw[1]][rw[2]].task = c}) = 1
      ]_vars

\* C6: a listen_forever call that ends after stop() was called for its run
\* returns Ok and has left the state Stopped, so that the next call can
\* start the next run.
C6_LifecycleRepeats ==
    [][ \A t \in Threads :
          (Leaves(t) /\ (state # "Running" \/ runs > run[t])) =>
              /\ pc'[t] = "idle"
              /\ ret[t] = "ok"
              /\ (state = "Stopped" \/ runs > run[t])
      ]_vars

\* C7: no task handed to the pool is discarded, and listen_forever ends only
\* when no task of its pool is buffered or running any more.
C7_NoWorkDiscarded ==
    [][ /\ \A c \in Conns : conn[c] = "queued" => conn'[c] # "closed"
        /\ \A t \in Threads : Leaves(t) =>
              /\ queue[run[t]] = <<>>
              /\ \A w \in Workers : worker[run[t]][w].st # "run"
      ]_vars

\* C8: a failed accept or a failure to set a connection's timeouts does not
\* end the accept loop and does not change the server state.
C8_ConnectionFailureContained ==
    [][ \A t \in Threads :
          \/ pc[t] = "lf_check" /\ cur[t] = AcceptErr /\ state # "Stopping" /\ pc'[t] # pc[t]
          \/ pc[t] = "lf_dispatch" /\ pc'[t] # pc[t] /\ queue' = queue /\ ~aborted'
          => (pc'[t] = "lf_accept" /\ state' = state)
      ]_vars

\* C9: a panicking task does not kill its worker: as long as a pool has its
\* sender, all of its workers are alive.
C9_WorkersSurviveFaults ==
    \A r \in Runs : sender[r] => \A w \in Workers : Live(r, w)

\* C10: once the sender is dropped, every task still buffered is taken by a
\* worker; a worker leaves its receive loop only on the closed, empty
\* channel; and no worker is alive when the pool's drop has ended.
C10_DropDrainsAndJoins ==
    [][ /\ \A r \in Runs : \A i \in 1..Len(queue[r]) :
              ~sender[r] => conn'[queue[r][i]] \in {"queued", "running"}
        /\ \A r \in Runs : \A w \in Workers :
              (worker[r][w].st # "exit" /\ worker'[r][w].st = "exit") =>
                  (queue[r] = <<>> /\ ~sender[r])
        /\ \A t \in Threads :
              (pc[t] = "lf_join" /\ pc'[t] # "lf_join") =>
                  \A w \in Workers : ~Live(run[t], w)
      ]_vars

\* C11: handing a connection to the pool never waits for a worker: whenever
\* the accept thread is about to call execute and the channel has a receiver,
\* the task can be enqueued, whatever the workers are doing and however many
\* tasks are buffered; and no connection is processed on the accept thread:
\* a connection being processed is held by a worker, a connection the accept
\* thread holds is not being processed.
C11_HandoffNeverBlocks ==
    /\ \A t \in Threads :
          (pc[t] = "lf_dispatch" /\ ReceiverAlive(run[t])) =>
              ENABLED (Dispatch(t) /\ conn'[cur[t]] = "queued")
    /\ \A t \in Threads : cur[t] \in Conns => conn[cur[t]] = "held"
    /\ \A c \in Conns : conn[c] = "running" =>
          \E r \in Runs : \E w \in Workers : worker[r][w].task = c

\* the accept thread is back in accept() after it enqueued a connection while
\* every worker was busy and an earlier task was still buffered
C11_Witness ==
    \E t \in Threads :
        /\ pc[t] = "lf_accept"
        /\ Len(queue[run[t]]) >= 2
        /\ \A w \in Workers : worker[run[t]][w].st = "run"

\* C12: a worker executes one task at a time: every task being executed is
\* held by exactly one worker, that worker is in its task() call, an idle
\* worker holds none, and so a pool executes at most NumWorkers tasks.
C12_OneTaskPerWorker ==
    /\ \A c \in Conns : conn[c] = "running" =>
          Cardinality({rw \in Runs \X Workers :
                          /\ worker[rw[1]][rw[2]].task = c
                          /\ worker[rw[1]][rw[2]].st = "run"}) = 1
    /\ \A r \in Runs : \A w \in Workers :
          worker[r][w].st # "run" => worker[r][w].task = NoConn
    /\ Cardinality({c \in Conns : conn[c] = "running"}) <= MaxRuns * NumWorkers

\* every worker of the pool is busy while a further task waits in the channel
C12_Witness ==
    \E r \in Runs :
        /\ \A w \in Workers : worker[r][w].st = "run"
        /\ queue[r] # <<>>

\* ------------------------------------------------ claims on ConnSpec
\* the pipeline step s was taken
Did(s) == \E i \in DOMAIN steps : steps[i] = s
Times(s) == Cardinality({i \in DOMAIN steps : steps[i] = s})
StatusLines == {i \in DOMAIN writer : writer[i].kind = "status"}
\* entry i has the request's method and a pattern that matches its path
Hits(i) ==
    /\ routes[i].method = request.method
    /\ request.path \in routes[i].pat
HooksPassed ==
    /\ Len(applied) = middleware
    /\ \A i \in DOMAIN applied : applied[i]

\* the order the claim gives, and the order of the code
ClaimedRank(s) ==
    CASE s = "parse" -> 1 [] s = "route" -> 2 [] s = "before" -> 3
      [] s = "handle" -> 4 [] s = "after" -> 5 [] s = "write" -> 6
CodeRank(s) ==
    CASE s = "parse" -> 1 [] s = "before" -> 2 [] s = "route" -> 3
      [] s = "handle" -> 4 [] s = "write" -> 5

C14_ParseErrorsAnswered ==
    (hpc = "closed" /\ request.st # "parsed") =>
        IF lines[1].io = "ok"
        THEN \E i \in StatusLines : writer[i].text = StatusText["BadRequest"]
        ELSE writer = <<>>

\* C15: when a hook fails it is the last one applied, no route is looked up,
\* no handler is invoked, nothing is written, and handle returns an error.
C15_FailedHookAborts ==
    \A i \in DOMAIN applied :
        ~applied[i] =>
            /\ i = Len(applied)
            /\ ~Did("route")
            /\ calls = <<>>
            /\ response = NoResponse
            /\ writer = <<>>
            /\ hpc = "closed"
            /\ result = "err"

\* the first of two hooks failed
C15_Witness ==
    /\ middleware = 2
    /\ applied = <<FALSE>>
    /\ hpc = "closed"

\* C16: a failed read while the request line or a header line is read makes
\* parse_request fail: the request is not parsed, no handler is invoked and
\* handle returns an error.
C16_ReadFailureFailsParse ==
    (\E i \in DOMAIN lines : lines[i].io = "err") =>
        /\ request.st # "parsed"
        /\ calls = <<>>
        /\ hpc = "closed"
        /\ result = "err"

\* C17: when no entry has the request's method and a pattern matching its
\* path, no handler is invoked, dispatch returns NotFound and the response
\* written is the 404 status line and the empty line, nothing else.
C17_RouteMissIs404 ==
    (Did("route") /\ \A i \in DOMAIN routes : ~Hits(i)) =>
        /\ calls = <<>>
        /\ response = [kind |-> "err", status |-> "NotFound", body |-> FALSE]
        /\ hpc = "closed" =>
              /\ writer = <<[kind |-> "status", text |-> "404 Not Found"],
                            [kind |-> "blank", text |-> ""]>>
              /\ result = "ok"

\* a POST request for a path that only a GET entry matches was answered
C17_Witness ==
    /\ hpc = "closed"
    /\ Did("route")
    /\ request.method = "Post"
    /\ \E i \in DOMAIN routes : request.path \in routes[i].pat
    /\ \A i \in DOMAIN routes : ~Hits(i)

\* C18: when some entry has the request's method and a matching pattern,
\* dispatch invokes one handler, once: that of the earliest such entry.
C18_FirstMatchWins ==
    /\ Len(calls) <= 1
    /\ \A i \in DOMAIN calls : calls[i] \in DOMAIN routes
    /\ \A i \in DOMAIN routes :
          (Did("route") /\ Hits(i) /\ \A j \in 1..(i - 1) : ~Hits(j)) =>
              \/ calls = <<i>>
              \/ calls = <<>> /\ hpc = "call"

\* an earlier entry with the other method was skipped, and (in another run)
\* the first of two matching entries was taken: here the second entry is the
\* one invoked although the first one's pattern matches too
C18_Witness ==
    /\ hpc = "closed"
    /\ Len(routes) = 2
    /\ request.path \in routes[1].pat
    /\ ~Hits(1)
    /\ calls = <<2>>

\* C19: at most one response per connection: the handler is invoked at most
\* once, at most one status line is written, exactly one when parsing and
\* the hooks succeeded, and it carries the status the request handler
\* returned, an HttpError's status unchanged.
C19_OneResponse ==
    /\ Len(calls) <= 1
    /\ Cardinality(StatusLines) <= 1
    /\ (hpc = "closed" /\ request.st = "parsed" /\ HooksPassed) =>
          Cardinality(StatusLines) = 1
    /\ \A i \in StatusLines :
          /\ i = 1
          /\ response.kind # "none"
          /\ writer[i].text = StatusText[response.status]

\* a handler returned HttpError(BadRequest) and the connection was answered
C19_Witness ==
    /\ hpc = "closed"
    /\ calls # <<>>
    /\ response = [kind |-> "err", status |-> "BadRequest", body |-> FALSE]
    /\ writer # <<>>

\* ------------------------------------------------ claims on RespSpec
BodyHeaders == {"content-length", "content-type", "content-encoding"}
HasHeader(r, lk) == \E i \in DOMAIN r.headers : to_lowercase[r.headers[i][1]] = lk

\* C20: a response that can be serialized has a content-length header when
\* it has a body, and none of the headers content-length, content-type and
\* content-encoding when it has none.
C20_BodyHeadersMatchBody ==
    rpc = "built" =>
        /\ resp.some => HasHeader(resp, "content-length")
        /\ ~resp.some => \A lk \in BodyHeaders : ~HasHeader(resp, lk)

\* the entries of r's header list whose key is lk, ignoring case
HeadersOf(r, lk) == {i \in DOMAIN r.headers : to_lowercase[r.headers[i][1]] = lk}

\* C21: when the compression hook has run on a response with a body, the
\* response has exactly one content-encoding header, with the value gzip,
\* and exactly one content-length header, whose value is the number of bytes
\* of the compressed body, which is the body it now carries.
C21_CompressedLengthDeclared ==
    [][ (resp.some /\ resp'.some /\ resp'.body # resp.body) =>
            /\ resp'.body = GzEncoder(resp.body)
            /\ Cardinality(HeadersOf(resp', "content-encoding")) = 1
            /\ \A i \in HeadersOf(resp', "content-encoding") :
                  resp'.headers[i][2] = "gzip"
            /\ Cardinality(HeadersOf(resp', "content-length")) = 1
            /\ \A i \in HeadersOf(resp', "content-length") :
                  resp'.headers[i][2] = ToString(Len(resp'.body))
      ]_vars

\* a two-byte text, declared with content-length 2, has been compressed
C21_Witness ==
    /\ rpc = "built"
    /\ resp.some
    /\ resp.body = GzEncoder(<<97, 98>>)
    /\ \E i \in DOMAIN resp.headers : resp.headers[i] = <<"content-encoding", "gzip">>
    /\ \A i \in DOMAIN resp.headers : resp.headers[i] # <<"content-length", "2">>

\* C22: no two entries of a response's header list have keys that are equal
\* ignoring case; a set_header call on a key that is present, ignoring case,
\* changes that entry's value only (same position, same key, same number of
\* entries), and a call on a new key appends one entry at the end.
C22_SetHeaderInsertsOrOverwrites ==
    [][ /\ \A i, j \in DOMAIN resp'.headers :
              to_lowercase[resp'.headers[i][1]] = to_lowercase[resp'.headers[j][1]] => i = j
        /\ (nOps' # nOps /\ resp'.body = resp.body /\ resp'.some = resp.some) =>
              \E k \in Keys : \E v \in Values \cup {"gzip"} :
                  IF HeadersOf(resp, to_lowercase[k]) # {}
                  THEN /\ Len(resp'.headers) = Len(resp.headers)
                       /\ \A i \in DOMAIN resp.headers :
                             resp'.headers[i] =
                                 IF i \in HeadersOf(resp, to_lowercase[k])
                                 THEN <<resp.headers[i][1], v>>
                                 ELSE resp.headers[i]
                  ELSE resp'.headers = Append(resp.headers, <<k, v>>)
      ]_vars

\* set_header("Content-Length", "7") overwrote the value of the entry
\* "content-length" in place, and set_header("x-a", "v") appended an entry
C22_Witness ==
    /\ rpc = "built"
    /\ resp.headers = <<<<"content-length", "7">>,
                        <<"content-type", "text/plain">>,
                        <<"x-a", "v">>>>

\* ------------------------------------------- further claims on Spec
\* C23: stop() never waits for the accept loop: with the state lock in hand
\* it can always take its next step, also while the accept loop waits for
\* that lock after an accept; the lock is only ever held by a thread that
\* is inside stop() or listen_forever's first statements.
C23_StopNeverWaitsOnAccept ==
    ~aborted =>
        /\ \A t \in Threads :
              /\ pc[t] = "stop_locked" => ENABLED StopCheck(t)
              /\ pc[t] = "stop_connect" => ENABLED StopConnect(t)
        /\ guard # Unlocked => pc[guard] \in {"stop_locked", "stop_connect", "lf_locked"}

\* stop() holds the lock and is about to connect while the accept loop,
\* back from accept(), waits for the lock
C23_Witness ==
    \E t, u \in Threads :
        /\ pc[t] = "stop_connect"
        /\ guard = t
        /\ pc[u] = "lf_check"

\* C24: whenever the state is Stopped, every pool created so far is torn
\* down (sender dropped, channel empty, no worker thread alive), and at most
\* one pool exists at any time.
C24_StoppedMeansTornDown ==
    /\ state = "Stopped" =>
          \A r \in Runs :
              /\ ~sender[r]
              /\ queue[r] = <<>>
              /\ \A w \in Workers : ~Live(r, w)
    /\ Cardinality({r \in Runs : sender[r] \/ \E w \in Workers : Live(r, w)}) <= 1

\* C25: a wake-up connection of stop() is never handed to a pool, and the
\* connection the accept loop drops when it breaks on Stopping is a wake-up
\* connection, never a client's.
C25_OnlyDummyDropped ==
    [][ \A c \in Conns :
          /\ conn'[c] = "queued" => c \in Clients
          /\ (conn[c] = "held" /\ conn'[c] = "closed"
              /\ \E t \in Threads : pc[t] = "lf_check" /\ pc'[t] = "lf_mark") =>
                 c \in Dummies
      ]_vars

\* ------------------------------------------------ claims on PoolSpec
\* C26: the lock of the Receiver is held only by a worker that is in recv(),
\* never by one that runs a task; so whenever a task is buffered and a
\* worker is not busy, some worker can take its next step towards that task,
\* whatever the other workers are running.
C26_LockFreeWhileRunning ==
    /\ receiver # NoHolder => wk[receiver].st = "recv"
    /\ \A w \in PoolWorkers : wk[w].st = "run" => receiver # w
    /\ (chan # <<>> /\ \E w \in PoolWorkers : wk[w].st \in {"lock", "recv"}) =>
          \E w \in PoolWorkers : ENABLED RecvLock(w) \/ ENABLED Recv(w)

\* two workers execute two tasks at the same time
C26_Witness ==
    \E v, w \in PoolWorkers :
        /\ v # w
        /\ wk[v].st = "run"
        /\ wk[w].st = "run"
        /\ wk[v].task # wk[w].task

====
